---------------------------- MODULE Spec2Model ----------------------------
(***************************************************************************)
(* Model of package otp (src/otp.go): HOTPCode (RFC 4226), TOTPCode and    *)
(* TOTPValidator.ValidateTOTPCode (RFC 6238).                              *)
(*                                                                         *)
(* Representation.                                                         *)
(*  - a time.Time is an integer number of ticks since the Unix epoch and a *)
(*    time.Duration an integer number of ticks, TicksPerSecond ticks to    *)
(*    the second (Go counts nanoseconds); Time.Unix() rounds down to whole *)
(*    seconds, and Go's integer division truncates toward zero.            *)
(*  - a []byte is a sequence of 0..255.                                    *)
(*  - crypto/hmac and the hash functions are not part of the repository;   *)
(*    HmacSum stands in for them: a deterministic digest of Size(hash)     *)
(*    bytes depending on the hash, the key and the message.                *)
(*  - a run-time panic of HOTPCode (slice bounds out of range, integer     *)
(*    divide by zero) is the outcome panic = TRUE.                         *)
(***************************************************************************)
EXTENDS Integers, Sequences, FiniteSets, TLC

VARIABLES tc, call, ret, accepted, hin, hout

vars == <<tc, call, ret, accepted, hin, hout>>

-----------------------------------------------------------------------------
(* Program constants.                                                      *)

SixDigits == 1000000

DefaultStepSizeSeconds == 30

(* func() hash.Hash values: the nil func and the constructors the model    *)
(* passes.  "sum4", "sum18" and "sum19" are hash.Hash implementations with *)
(* digests of 4, 18 and 19 bytes; "md5" has 16, "sha1" 20, "sha256" 32.    *)
Nil == "nil"

Size(hashProvider) ==
    CASE hashProvider = "sum4"   -> 4
      [] hashProvider = "md5"    -> 16
      [] hashProvider = "sum18"  -> 18
      [] hashProvider = "sum19"  -> 19
      [] hashProvider = "sha1"   -> 20
      [] hashProvider = "sha256" -> 32

-----------------------------------------------------------------------------
(* Bounds of the model.                                                    *)

TicksPerSecond == 2

MaxT == 2

MaxValue == 3

-----------------------------------------------------------------------------
(* binary.Write(h, binary.BigEndian, value) for an int64: the eight bytes  *)
(* of the two's complement of value, most significant first.  The model's  *)
(* values lie within 32 bits, so the upper four bytes are the sign         *)
(* extension.                                                              *)

BigEndianInt64(value) ==
    LET ext == IF value < 0 THEN 255 ELSE 0
    IN  << ext, ext, ext, ext,
           (value \div 16777216) % 256,
           (value \div 65536) % 256,
           (value \div 256) % 256,
           value % 256 >>

(* Stand-in for hmac.New(hashProvider, key), h.Write(msg), h.Sum(nil).     *)
RECURSIVE Absorb(_, _)
Absorb(acc, bytes) ==
    IF bytes = << >> THEN acc
    ELSE Absorb(((acc + Head(bytes) + 1) * (acc + 3 * Head(bytes) + 7)) % 32749,
                Tail(bytes))

HmacSum(hashProvider, key, msg) ==
    LET keyed == Absorb(Absorb(Size(hashProvider), key), msg)
    IN  [i \in 1..Size(hashProvider) |->
            (Absorb(keyed, <<i, Len(key)>>) \div 3) % 256]

-----------------------------------------------------------------------------
(* HOTPCode, src/otp.go:28-40.                                             *)

(* Mutant: the offset masked with 0x1f. *)
OffsetFiveBits(sum) == sum[Len(sum)] % 32

(* offset := sum[len(sum)-1] & 0x0f *)
Offset(sum) == sum[Len(sum)] % 16

(* binary.BigEndian.Uint32(sum[offset:offset+4]) & 0x7fffffff; Go's slice  *)
(* sum[offset:offset+4] is elements offset+1 .. offset+4 of the sequence.  *)
Snip(sum) ==
    LET o == Offset(sum)
    IN  (sum[o + 1] % 128) * 16777216 + sum[o + 2] * 65536
          + sum[o + 3] * 256 + sum[o + 4]

(* sum := h.Sum(nil) for the counter value.  Digests holds the digests of  *)
(* the counters around the model's instants, computed once; any other      *)
(* counter's digest is computed on demand.                                 *)
AllHashes == { "sum4", "md5", "sum18", "sum19", "sha1", "sha256" }

AllKeys == { <<49, 50>>, <<97>> }

Digests ==
    [h \in AllHashes, k \in AllKeys, c \in -8..16 |->
        HmacSum(h, k, BigEndianInt64(c))]

Sum(hashProvider, key, value) ==
    IF <<hashProvider, key, value>> \in DOMAIN Digests
    THEN Digests[hashProvider, key, value]
    ELSE HmacSum(hashProvider, key, BigEndianInt64(value))

(* HOTPCode panics when the slice expression runs past the digest or when  *)
(* the modulus uint32(digits) is zero.                                     *)
HOTPPanics(hashProvider, key, digits, value) ==
    LET sum == Sum(hashProvider, key, value)
    IN  Offset(sum) + 4 > Len(sum) \/ digits = 0

(* Mutant: the truncated digest divided by the digit count. *)
HOTPCodeDivides(hashProvider, key, digits, value) ==
    Snip(Sum(hashProvider, key, value)) \div digits

HOTPCode(hashProvider, key, digits, value) ==
    Snip(Sum(hashProvider, key, value)) % digits

-----------------------------------------------------------------------------
(* Time: Time.Unix(), Time.Add(d), Go's integer division, timeSteps        *)
(* (src/otp.go:95-97) and TOTPCode (src/otp.go:44-46).                     *)

(* t.Unix(): whole seconds since the epoch, rounded down. *)
Unix(t) == t \div TicksPerSecond

(* t.Add(d) *)
Add(t, d) == t + d

(* Go's a / b on integers truncates toward zero (b # 0). *)
GoDiv(a, b) ==
    LET abs(x) == IF x < 0 THEN -x ELSE x
        q == abs(a) \div abs(b)
    IN  IF (a < 0) = (b < 0) THEN q ELSE -q

timeSteps(stepSize, t) == GoDiv(Unix(t), stepSize)

(* Mutant: the Unix time as the counter, not divided into steps. *)
TOTPCodeNoSteps(hashProvider, key, digits, stepSizeSeconds, t) ==
    HOTPCode(hashProvider, key, digits, Unix(t))

TOTPCode(hashProvider, key, digits, stepSizeSeconds, t) ==
    HOTPCode(hashProvider, key, digits, timeSteps(stepSizeSeconds, t))

-----------------------------------------------------------------------------
(* TOTPValidator.ValidateTOTPCode, src/otp.go:64-93.                       *)

(* if hashProvider == nil { hashProvider = sha1.New } *)
DefaultHash(hashProvider) ==
    IF hashProvider = Nil THEN "sha1" ELSE hashProvider

(* Mutant: seven digits where Digits is unset. *)
DefaultDigitsSeven(digits) == IF digits = 0 THEN SixDigits * 10 ELSE digits

(* if digits == 0 { digits = SixDigits } *)
DefaultDigits(digits) == IF digits = 0 THEN SixDigits ELSE digits

(* if stepSizeSeconds == 0 { stepSizeSeconds = DefaultStepSizeSeconds } *)
DefaultStep(stepSizeSeconds) ==
    IF stepSizeSeconds = 0 THEN DefaultStepSizeSeconds ELSE stepSizeSeconds

(* tMin := timeSteps(stepSizeSeconds, now.Add(-tc.PastTolerance)) *)
TMin(v, now) ==
    timeSteps(DefaultStep(v.StepSizeSeconds), Add(now, -v.PastTolerance))

(* tMax := timeSteps(stepSizeSeconds, now.Add(tc.FutureTolerance)) *)
TMax(v, now) ==
    timeSteps(DefaultStep(v.StepSizeSeconds), Add(now, v.FutureTolerance))

(* Mutant: the last counter of the window returned on failure. *)
NoMatchAtTMax(v, now) ==
    [panic |-> FALSE, ok |-> FALSE, t |-> TMax(v, now)]

(* The value of the final return statement. *)
NoMatch(v, now) ==
    [panic |-> FALSE, ok |-> FALSE,
     t |-> timeSteps(DefaultStep(v.StepSizeSeconds), now)]

(* Mutant: the floor is not consulted. *)
RECURSIVE ValidateLoopNoFloor(_, _, _, _, _)
ValidateLoopNoFloor(v, now, code, t, tMax) ==
    IF ~(t <= tMax) THEN NoMatch(v, now)
    ELSE IF HOTPPanics(DefaultHash(v.HashProvider), v.Key,
                       DefaultDigits(v.Digits), t)
         THEN [panic |-> TRUE, ok |-> FALSE, t |-> 0]
    ELSE IF HOTPCode(DefaultHash(v.HashProvider), v.Key,
                     DefaultDigits(v.Digits), t) = code
         THEN [panic |-> FALSE, ok |-> TRUE, t |-> t]
    ELSE ValidateLoopNoFloor(v, now, code, t + 1, tMax)

(* Mutant: the counter equal to LastT is not skipped. *)
RECURSIVE ValidateLoopFloorExclusive(_, _, _, _, _)
ValidateLoopFloorExclusive(v, now, code, t, tMax) ==
    IF ~(t <= tMax) THEN NoMatch(v, now)
    ELSE IF t < v.LastT
         THEN ValidateLoopFloorExclusive(v, now, code, t + 1, tMax)
    ELSE IF HOTPPanics(DefaultHash(v.HashProvider), v.Key,
                       DefaultDigits(v.Digits), t)
         THEN [panic |-> TRUE, ok |-> FALSE, t |-> 0]
    ELSE IF HOTPCode(DefaultHash(v.HashProvider), v.Key,
                     DefaultDigits(v.Digits), t) = code
         THEN [panic |-> FALSE, ok |-> TRUE, t |-> t]
    ELSE ValidateLoopFloorExclusive(v, now, code, t + 1, tMax)

(* Mutant: the window excludes tMax. *)
RECURSIVE ValidateLoopOpenEnd(_, _, _, _, _)
ValidateLoopOpenEnd(v, now, code, t, tMax) ==
    IF ~(t < tMax) THEN NoMatch(v, now)
    ELSE IF t <= v.LastT THEN ValidateLoopOpenEnd(v, now, code, t + 1, tMax)
    ELSE IF HOTPPanics(DefaultHash(v.HashProvider), v.Key,
                       DefaultDigits(v.Digits), t)
         THEN [panic |-> TRUE, ok |-> FALSE, t |-> 0]
    ELSE IF HOTPCode(DefaultHash(v.HashProvider), v.Key,
                     DefaultDigits(v.Digits), t) = code
         THEN [panic |-> FALSE, ok |-> TRUE, t |-> t]
    ELSE ValidateLoopOpenEnd(v, now, code, t + 1, tMax)

(* for t := tMin; t <= tMax; t++ { ... }, entered with the loop variable   *)
(* at t.                                                                   *)
RECURSIVE ValidateLoop(_, _, _, _, _)
ValidateLoop(v, now, code, t, tMax) ==
    IF ~(t <= tMax) THEN NoMatch(v, now)
    ELSE IF t <= v.LastT THEN ValidateLoop(v, now, code, t + 1, tMax)
    ELSE IF HOTPPanics(DefaultHash(v.HashProvider), v.Key,
                       DefaultDigits(v.Digits), t)
         THEN [panic |-> TRUE, ok |-> FALSE, t |-> 0]
    ELSE IF HOTPCode(DefaultHash(v.HashProvider), v.Key,
                     DefaultDigits(v.Digits), t) = code
         THEN [panic |-> FALSE, ok |-> TRUE, t |-> t]
    ELSE ValidateLoop(v, now, code, t + 1, tMax)

ValidateTOTPCode(v, now, code) ==
    ValidateLoop(v, now, code, TMin(v, now), TMax(v, now))

(* Mutant: the validator stores the counter it accepts. *)
ValidatorAfterStores(v, r) == IF r.ok THEN [v EXCEPT !.LastT = r.t] ELSE v

(* The receiver after the call: the method assigns to no field of *tc. *)
ValidatorAfter(v, r) == v


-----------------------------------------------------------------------------
(* Inputs.                                                                 *)

Keys == AllKeys

(* Hash constructors a validator is configured with, and those HOTPCode is *)
(* called with directly.                                                   *)
ValidatorHashes == { Nil, "sha1", "sha256" }

HOTPHashes == AllHashes

ValidatorDigits == { 0, 10, SixDigits }

HOTPDigits == { 0, 10, SixDigits, SixDigits * 100 }

StepSizes == { 0, 20, DefaultStepSizeSeconds }

PastTolerances ==
    { -30 * TicksPerSecond, 0, 15 * TicksPerSecond + 1, 30 * TicksPerSecond }

FutureTolerances ==
    { -30 * TicksPerSecond, 0, 30 * TicksPerSecond, 45 * TicksPerSecond }

(* The tolerances a caller assigns during a session. *)
SessionPast == { 0, 30 * TicksPerSecond }

SessionFuture == { -30 * TicksPerSecond, 0, 30 * TicksPerSecond }

(* Instants: before the epoch, one tick before it, and the last second and *)
(* the first second of the steps up to MaxT.                               *)
Nows ==
    { -31 * TicksPerSecond, -1, 30 * MaxT * TicksPerSecond }
      \cup { (30 * k + 29) * TicksPerSecond + 1 : k \in 0..MaxT }

LastTs == -1..MaxT

Values == (-MaxValue..MaxValue) \cup { 65536 * MaxValue + 255 }

(* The codes a caller submits: what the token computes with TOTPCode from  *)
(* the shared configuration (SHA-1, six digits and 30 seconds where the    *)
(* validator leaves them unset, as in Example) at some instant of its own  *)
(* clock, and a value that is no code.                                     *)
TokenHash(v) == IF v.HashProvider = Nil THEN "sha1" ELSE v.HashProvider

TokenDigits(v) == IF v.Digits = 0 THEN SixDigits ELSE v.Digits

TokenStep(v) ==
    IF v.StepSizeSeconds = 0 THEN DefaultStepSizeSeconds ELSE v.StepSizeSeconds

TokenCode(v, t) ==
    TOTPCode(TokenHash(v), v.Key, TokenDigits(v), TokenStep(v), t)

Codes(v) == { TokenCode(v, t) : t \in Nows } \cup { -1 }

-----------------------------------------------------------------------------
(* State.                                                                  *)
(*   tc        the TOTPValidator struct                                    *)
(*   call      the caller's last operation on it, with the arguments of    *)
(*             its last ValidateTOTPCode call; replay says that call       *)
(*             repeated the arguments of an accepted call right after the  *)
(*             caller stored its counter in LastT                          *)
(*   ret       what the last ValidateTOTPCode call returned                *)
(*   accepted  the counters returned with true, in order                   *)
(*   hin, hout the arguments and the outcome of a direct HOTPCode or       *)
(*             TOTPCode call                                               *)

NoCall == [op |-> "none", now |-> 0, code |-> 0, replay |-> FALSE]

NoRet == [panic |-> FALSE, ok |-> FALSE, t |-> 0]

NoHin == [hashProvider |-> "sha1", key |-> << >>, digits |-> 0, value |-> 0]

NoHout == [done |-> FALSE, panic |-> FALSE, code |-> 0]

Validators ==
    [Key : Keys, StepSizeSeconds : StepSizes, PastTolerance : PastTolerances,
     FutureTolerance : FutureTolerances, LastT : LastTs,
     HashProvider : ValidatorHashes, Digits : ValidatorDigits]

(* A validator in any configuration, before its first call. *)
InitCall ==
    /\ tc \in Validators
    /\ call = NoCall
    /\ ret = NoRet
    /\ accepted = << >>
    /\ hin = NoHin
    /\ hout = NoHout

(* A validator as a caller sets it up for a session: tolerances and floor  *)
(* at their zero values.                                                   *)
Init ==
    /\ InitCall
    /\ tc.Key = <<97>>
    /\ tc.HashProvider = Nil
    /\ tc.Digits \in { 0, 10 }
    /\ tc.StepSizeSeconds \in { 0, 20 }
    /\ tc.PastTolerance = 0
    /\ tc.FutureTolerance = 0
    /\ tc.LastT = 0

(* The arguments of a direct HOTPCode call. *)
InitHOTP ==
    /\ tc = [Key |-> << >>, StepSizeSeconds |-> 0, PastTolerance |-> 0,
             FutureTolerance |-> 0, LastT |-> 0, HashProvider |-> Nil,
             Digits |-> 0]
    /\ call = NoCall
    /\ ret = NoRet
    /\ accepted = << >>
    /\ hin \in [hashProvider : HOTPHashes, key : Keys, digits : HOTPDigits,
                value : Values]
    /\ hout = NoHout

-----------------------------------------------------------------------------
(* Actions.                                                                *)

(* ok, t := tc.ValidateTOTPCode(now, code) *)
Validate(now, code) ==
    LET r == ValidateTOTPCode(tc, now, code)
    IN  /\ ret' = r
        /\ tc' = ValidatorAfter(tc, r)
        /\ call' = [op |-> "ValidateTOTPCode", now |-> now, code |-> code,
                    replay |-> /\ call.op = "SetLastT"
                               /\ call.now = now
                               /\ call.code = code]
        /\ accepted' = IF r.ok THEN Append(accepted, r.t) ELSE accepted
        /\ UNCHANGED <<hin, hout>>

(* The first call on a validator. *)
FirstCall ==
    /\ call.op = "none"
    /\ \E now \in Nows, code \in Codes(tc) : Validate(now, code)

(* A call of a caller that stores every accepted counter before it calls   *)
(* again.                                                                  *)
Call ==
    /\ ~(call.op = "ValidateTOTPCode" /\ ret.ok)
    /\ \E now \in Nows, code \in Codes(tc) : Validate(now, code)

(* validator.LastT = lastT, after a call that returned true. *)
SetLastT ==
    /\ call.op = "ValidateTOTPCode"
    /\ ret.ok
    /\ tc' = [tc EXCEPT !.LastT = ret.t]
    /\ call' = [call EXCEPT !.op = "SetLastT"]
    /\ UNCHANGED <<ret, accepted, hin, hout>>

(* The caller drops the previous result and assigns the tolerances. *)
SetTolerance ==
    /\ ~(call.op = "ValidateTOTPCode" /\ ret.ok)
    /\ \E p \in SessionPast, f \in SessionFuture :
          /\ <<p, f>> # <<tc.PastTolerance, tc.FutureTolerance>>
          /\ tc' = [tc EXCEPT !.PastTolerance = p, !.FutureTolerance = f]
    /\ call' = [NoCall EXCEPT !.op = "SetTolerance"]
    /\ ret' = NoRet
    /\ UNCHANGED <<accepted, hin, hout>>

HOTPOutcome(h) ==
    IF HOTPPanics(h.hashProvider, h.key, h.digits, h.value)
    THEN [done |-> TRUE, panic |-> TRUE, code |-> 0]
    ELSE [done |-> TRUE, panic |-> FALSE,
          code |-> HOTPCode(h.hashProvider, h.key, h.digits, h.value)]

(* HOTPCode(hashProvider, key, digits, value) *)
CallHOTPCode ==
    /\ ~hout.done
    /\ hout' = HOTPOutcome(hin)
    /\ UNCHANGED <<tc, call, ret, accepted, hin>>

(* TOTPCode(hashProvider, key, digits, stepSizeSeconds, t): HOTPCode on    *)
(* the time step of t.                                                     *)
CallTOTPCode ==
    /\ ~hout.done
    /\ \E step \in StepSizes \ {0}, t \in Nows :
          /\ hin' = [hin EXCEPT !.value = timeSteps(step, t)]
          /\ hout' = HOTPOutcome(hin')
    /\ UNCHANGED <<tc, call, ret, accepted>>

Next == Call \/ SetLastT \/ SetTolerance

Spec == Init /\ [][Next]_vars

NextCall == FirstCall

SpecCall == InitCall /\ [][NextCall]_vars

NextHOTP == CallHOTPCode \/ CallTOTPCode

SpecHOTP == InitHOTP /\ [][NextHOTP]_vars


-----------------------------------------------------------------------------
(* Properties.                                                             *)

Called == call.op = "ValidateTOTPCode"

(* The code the validator compares against at counter t. *)
CodeAt(v, t) ==
    HOTPCode(DefaultHash(v.HashProvider), v.Key, DefaultDigits(v.Digits), t)

(* The counters of the window above the floor whose code is the candidate. *)
Matching(v, now, code) ==
    { t \in TMin(v, now)..TMax(v, now) : t > v.LastT /\ CodeAt(v, t) = code }

Least(S) == CHOOSE x \in S : \A y \in S : x <= y

(* C1: a call that returns true returns a counter greater than LastT; a    *)
(* counter at or below the floor is never accepted, also when it lies in   *)
(* the window and its code is the candidate.                               *)
C1_AboveFloor == (Called /\ ret.ok) => ret.t > tc.LastT

(* A call rejected although the candidate is the code of a counter of the  *)
(* window at or below the floor.                                           *)
C1_Witness ==
    /\ Called
    /\ ~ret.ok
    /\ \E t \in TMin(tc, call.now)..TMax(tc, call.now) :
          t <= tc.LastT /\ CodeAt(tc, t) = call.code

(* C2: after a call returned (true, t) and the caller stored t in LastT, a *)
(* second call with the same time and code returns false.                  *)
C2_NoReuse == (Called /\ call.replay) => ~ret.ok

(* C3: the call returns (true, t0) for the least counter t0 of the window  *)
(* above the floor whose code is the candidate, and (false, timeSteps of   *)
(* now) when there is none, an empty window included.                      *)
C3_Reference ==
    Called =>
        LET M == Matching(tc, call.now, call.code)
        IN  IF M # {}
            THEN ret = [panic |-> FALSE, ok |-> TRUE, t |-> Least(M)]
            ELSE ret = [panic |-> FALSE, ok |-> FALSE,
                        t |-> timeSteps(DefaultStep(tc.StepSizeSeconds),
                                        call.now)]

(* Two counters of the window carry the candidate and the earlier one is   *)
(* returned.                                                               *)
C3_Witness ==
    /\ Called
    /\ ret.ok
    /\ Cardinality(Matching(tc, call.now, call.code)) >= 2

(* C4 as stated: the code of counter c above the floor is accepted when    *)
(* tMax = c, and rejected when tMax = c - 1.                               *)
C4_Inclusive ==
    Called =>
        /\ (/\ TMax(tc, call.now) > tc.LastT
            /\ call.code = CodeAt(tc, TMax(tc, call.now))) => ret.ok
        /\ (/\ TMax(tc, call.now) + 1 > tc.LastT
            /\ call.code = CodeAt(tc, TMax(tc, call.now) + 1)) => ~ret.ok

(* C4 amended: the code of counter c above the floor is accepted when      *)
(* tMax = c and tMin <= c; it is rejected when tMax = c - 1 unless a       *)
(* counter of the window above the floor has the same code.                *)
C4_InclusiveAmended ==
    Called =>
        /\ (/\ TMax(tc, call.now) > tc.LastT
            /\ TMin(tc, call.now) <= TMax(tc, call.now)
            /\ call.code = CodeAt(tc, TMax(tc, call.now))) => ret.ok
        /\ (/\ TMax(tc, call.now) + 1 > tc.LastT
            /\ call.code = CodeAt(tc, TMax(tc, call.now) + 1)
            /\ Matching(tc, call.now, call.code) = {}) => ~ret.ok

(* The code of the last counter of a window of several counters is         *)
(* accepted at that counter.                                               *)
C4_Witness ==
    /\ Called
    /\ TMin(tc, call.now) < TMax(tc, call.now)
    /\ call.code = CodeAt(tc, TMax(tc, call.now))
    /\ ret.ok
    /\ ret.t = TMax(tc, call.now)

(* C5: with both tolerances zero and LastT below the step of now, the code *)
(* TOTPCode generates for now with the validator's hash, key, digits and   *)
(* step size is accepted at the step of now.                               *)
C5_RoundTrip ==
    (/\ Called
     /\ tc.PastTolerance = 0
     /\ tc.FutureTolerance = 0
     /\ tc.LastT < timeSteps(TokenStep(tc), call.now)
     /\ call.code = TokenCode(tc, call.now))
    => ret = [panic |-> FALSE, ok |-> TRUE,
              t |-> timeSteps(TokenStep(tc), call.now)]

(* The round trip at an instant before the epoch. *)
C5_Witness ==
    /\ Called
    /\ tc.PastTolerance = 0
    /\ tc.FutureTolerance = 0
    /\ call.now < 0
    /\ tc.LastT < timeSteps(TokenStep(tc), call.now)
    /\ call.code = TokenCode(tc, call.now)
    /\ ret.ok

(* C6: a ValidateTOTPCode call leaves every field of the validator as it   *)
(* was, and LastT changes only in the caller's assignment.                 *)
C6_Frame ==
    [][/\ call'.op = "ValidateTOTPCode" => tc' = tc
       /\ tc'.LastT # tc.LastT => call'.op = "SetLastT"]_vars

(* A call has returned true with a counter the validator does not hold. *)
C6_Witness == Called /\ ret.ok /\ tc.LastT # ret.t

(* C7: a validator with unset HashProvider, Digits or StepSizeSeconds      *)
(* returns what the validator with SHA-1, SixDigits and 30 seconds in      *)
(* their place returns, each field on its own.                             *)
Explicit(v) ==
    [v EXCEPT !.HashProvider = IF @ = Nil THEN "sha1" ELSE @,
              !.Digits = IF @ = 0 THEN SixDigits ELSE @,
              !.StepSizeSeconds = IF @ = 0 THEN DefaultStepSizeSeconds ELSE @]

C7_Defaults ==
    Called => ret = ValidateTOTPCode(Explicit(tc), call.now, call.code)

(* A validator with the three fields unset accepts a code. *)
C7_Witness ==
    /\ Called
    /\ tc.HashProvider = Nil
    /\ tc.Digits = 0
    /\ tc.StepSizeSeconds = 0
    /\ ret.ok

(* C8: for a positive digit count HOTPCode returns the 31-bit truncated    *)
(* digest modulo the digit count, a value in 0 .. digits - 1, for negative *)
(* counters too.                                                           *)
C8_Range ==
    (hout.done /\ ~hout.panic) =>
        LET snip == Snip(Sum(hin.hashProvider, hin.key, hin.value))
        IN  /\ snip \in 0..2147483647
            /\ hout.code = snip % hin.digits
            /\ hout.code \in 0..(hin.digits - 1)

(* A code of a negative counter that the modulus has reduced. *)
C8_Witness ==
    /\ hout.done
    /\ ~hout.panic
    /\ hin.value < 0
    /\ Snip(Sum(hin.hashProvider, hin.key, hin.value)) >= hin.digits

(* C9 as stated: with a digest of at least 4 bytes the window              *)
(* sum[offset:offset+4] lies inside the digest and HOTPCode (with a        *)
(* non-empty key and a positive digit count) returns a code.               *)
C9_Total ==
    (/\ hout.done
     /\ hin.key # << >>
     /\ hin.digits > 0
     /\ Size(hin.hashProvider) >= 4)
    => /\ Offset(Sum(hin.hashProvider, hin.key, hin.value)) + 4
            <= Size(hin.hashProvider)
       /\ ~hout.panic

(* C9 amended: the same with a digest of at least 19 bytes. *)
C9_TotalAmended ==
    (/\ hout.done
     /\ hin.key # << >>
     /\ hin.digits > 0
     /\ Size(hin.hashProvider) >= 19)
    => /\ Offset(Sum(hin.hashProvider, hin.key, hin.value)) + 4
            <= Size(hin.hashProvider)
       /\ ~hout.panic

(* A 19-byte digest whose window is its last four bytes. *)
C9_Witness ==
    /\ hout.done
    /\ ~hout.panic
    /\ Size(hin.hashProvider) = 19
    /\ Offset(Sum(hin.hashProvider, hin.key, hin.value)) = 15

(* C10: when the caller stores every accepted counter in LastT and nothing *)
(* else, each accepted counter is above the LastT of its call, LastT is    *)
(* the last accepted counter once stored, and the accepted counters        *)
(* strictly increase.                                                      *)
C10_Increasing ==
    /\ \A i, j \in 1..Len(accepted) : i < j => accepted[i] < accepted[j]
    /\ (Called /\ ret.ok) =>
          /\ ret.t = accepted[Len(accepted)]
          /\ tc.LastT < ret.t
    /\ (accepted # << >> /\ ~(Called /\ ret.ok)) =>
          tc.LastT = accepted[Len(accepted)]

(* Three counters have been accepted and stored. *)
C10_Witness == Len(accepted) >= 3 /\ call.op = "SetLastT"

=============================================================================
